---------------------------- MODULE Spec2Model ----------------------------
(***************************************************************************)
(* A model of lib/sync-settings.js of the Atom package sync-settings:      *)
(* the batch executor that installs / removes packages, the diff engine    *)
(* (getDiffData, settingsToKeyPaths, addDiffFile), the blacklist           *)
(* handling of the settings tree (getFilteredSettings, updateSettings,     *)
(* addFilteredSettings) and the flows checkForUpdate, backup, restore and  *)
(* forkGistId.                                                             *)
(***************************************************************************)
EXTENDS Integers, Sequences, FiniteSets, Bags, TLC

VARIABLES
    \* ---- batch executor (installMissingPackages / removeObsoletePackages)
    op,             \* which batch runs: "install" or "remove"
    pc,             \* "start", "running" (awaiting Promise.all), "done"
    total,          \* const total = missingPackages.length
    queue,          \* missingPackages / removePackages: the pending items
    notifications,  \* the keys of `notifications`: items holding an indicator
    succeeded,      \* the succeeded array, as a bag of names
    failed,         \* the failed array, as a bag of names
    reports,        \* the aggregate notifications emitted, oldest first
    workers,        \* promises of `result` that have not settled yet
    attempts,       \* history: names handed to installPackage / removePackage
    rejected,       \* history: names whose installPackage / removePackage rejected
    outcomes        \* the package manager: the results it can call back with, per name

batchVars == <<op, pc, total, queue, notifications, succeeded, failed,
               reports, workers, attempts, rejected, outcomes>>

VARIABLES
    \* ---- the host configuration store
    atomConfig,     \* settings: atom.config.settings (the global scope);
                    \* scoped: the scoped settings of the main source
    configBefore,   \* history: atomConfig when the last updateSettings began
    \* ---- diff engine
    localData,      \* the local snapshot: settings, packages, files
    backupData,     \* the backup snapshot: settings, packages, files
    diffData        \* the result of getDiffData, once computed

diffVars == <<localData, backupData, diffData>>

storeVars == <<atomConfig, configBefore>>

VARIABLES
    \* ---- the flows checkForUpdate, backup, restore and forkGistId
    profile,        \* the options of the package and the credentials
    flow,           \* the flow that runs, its position and its locals
    notes,          \* the user notifications of the flow, oldest first
    gist,           \* the remote backup: its files and its newest revision
    disk,           \* the files of the configuration directory, by path
    installed,      \* the installed packages, by name
    effects         \* history: the effects of the flow, oldest first

flowVars == <<profile, flow, notes, gist, disk, installed, effects>>

vars == <<batchVars, storeVars, diffVars, flowVars>>

\* No flow runs.
IdleFlow ==
    /\ profile = <<>>
    /\ flow = [name |-> "none"]
    /\ notes = <<>>
    /\ gist = <<>>
    /\ disk = <<>>
    /\ installed = <<>>
    /\ effects = <<>>

(***************************************************************************)
(* Bounds.                                                                 *)
(***************************************************************************)
MaxItems == 10

\* The leaf values of the settings, versions and file contents: "1" .. MaxVal.
MaxVal == 2

(***************************************************************************)
(* Helpers.                                                                *)
(***************************************************************************)
Min(a, b) == IF a <= b THEN a ELSE b

\* Object.keys(...) of the package maps: distinct names, here 1 .. n.
Items(n) == [i \in 1..n |-> i]

\* array.push(name); the arrays are only read through .length and through
\* failed.sort(), so the order of insertion is not kept.
Push(bag, name) == bag (+) SetToBag({name})

RECURSIVE SortedSeq(_)
\* failed.sort(): the names of the bag in increasing order, with repetitions.
SortedSeq(bag) ==
    IF bag = EmptyBag THEN <<>>
    ELSE LET m == CHOOSE x \in BagToSet(bag) : \A y \in BagToSet(bag) : x <= y
         IN  <<m>> \o SortedSeq(bag (-) SetToBag({m}))

(***************************************************************************)
(* The batch executor.  The executor's state is passed as a record b so    *)
(* that the synchronous part of installNextPackage / removeNextPackage is  *)
(* one operator, used by the launch loop and by every continuation.        *)
(***************************************************************************)
ConcurrencyCap == 8

\* Mutant: one worker per item, without the cap.
ConcurrencyUncapped(n) == n

\* const concurrency = Math.min(missingPackages.length, 8)
Concurrency(n) == Min(n, ConcurrencyCap)

\* The aggregate report of a finished batch.
Report(b) ==
    IF b.failed = EmptyBag
    THEN [type |-> "success", count |-> BagCardinality(b.succeeded), names |-> <<>>]
    ELSE [type |-> "warning", count |-> BagCardinality(b.failed),
          names |-> SortedSeq(b.failed)]

\* Mutant: the next item is read but not shifted off the queue.
NextPackageNoShift(b) ==
    IF Len(b.queue) > 0
    THEN LET name == Head(b.queue)
         IN  [b EXCEPT !.notifications = @ \cup {name},
                       !.attempts = Push(@, name)]
    ELSE IF b.notifications = {}
    THEN [b EXCEPT !.reports = Append(@, Report(b)),
                   !.workers = @ - 1]
    ELSE [b EXCEPT !.workers = @ - 1]

\* Mutant: a worker that finds the queue empty reports, whether or not other
\* items are still in flight.
NextPackageReportAlways(b) ==
    IF Len(b.queue) > 0
    THEN LET name == Head(b.queue)
         IN  [b EXCEPT !.queue = Tail(b.queue),
                       !.notifications = @ \cup {name},
                       !.attempts = Push(@, name)]
    ELSE [b EXCEPT !.reports = Append(@, Report(b)),
                   !.workers = @ - 1]

\* installNextPackage / removeNextPackage from its call to its first await
\* (or to its return): pop the next item and start the operation on it, or,
\* with nothing pending, report if no indicator is left, and end the worker.
NextPackage(b) ==
    IF Len(b.queue) > 0
    THEN LET name == Head(b.queue)
         IN  [b EXCEPT !.queue = Tail(b.queue),
                       !.notifications = @ \cup {name},
                       !.attempts = Push(@, name)]
    ELSE IF b.notifications = {}
    THEN [b EXCEPT !.reports = Append(@, Report(b)),
                   !.workers = @ - 1]
    ELSE [b EXCEPT !.workers = @ - 1]

\* Mutant: a failure drops the items that are still pending.
SettleCancelling(b, name, ok) ==
    [b EXCEPT !.succeeded = IF ok THEN Push(@, name) ELSE @,
              !.failed = IF ok THEN @ ELSE Push(@, name),
              !.queue = IF ok THEN @ ELSE <<>>,
              !.notifications = @ \ {name}]

\* The continuation after `await this.installPackage(pkg)`: book the outcome,
\* dismiss and delete the indicator.
Settle(b, name, ok) ==
    [b EXCEPT !.succeeded = IF ok THEN Push(@, name) ELSE @,
              !.failed = IF ok THEN @ ELSE Push(@, name),
              !.notifications = @ \ {name}]

\* Mutant: the launch loop starts a single worker.
LaunchSingle(b, i) ==
    IF i = 0 THEN b ELSE [NextPackage(b) EXCEPT !.workers = 1]

RECURSIVE Launch(_, _)
\* for (let i = 0; i < concurrency; i++) { result.push(installNextPackage()) }
Launch(b, i) ==
    IF i = 0 THEN b
    ELSE LET started == CHOOSE n \in {NextPackage(b)} : TRUE
         IN  Launch(started, i - 1)

Batch ==
    [queue |-> queue, notifications |-> notifications, succeeded |-> succeeded,
     failed |-> failed, reports |-> reports, workers |-> workers,
     attempts |-> attempts, rejected |-> rejected]

SetBatch(b) ==
    /\ queue' = b.queue
    /\ notifications' = b.notifications
    /\ succeeded' = b.succeeded
    /\ failed' = b.failed
    /\ reports' = b.reports
    /\ workers' = b.workers
    /\ attempts' = b.attempts
    /\ rejected' = b.rejected

\* The body of installMissingPackages / removeObsoletePackages once the list
\* of items is known: return at once on an empty list, else launch the workers.
StartBatch ==
    /\ pc = "start"
    /\ IF Len(queue) = 0
       THEN /\ pc' = "done"
            /\ UNCHANGED <<total, queue, notifications, succeeded, failed,
                           reports, workers, attempts, rejected>>
       ELSE LET c == Concurrency(Len(queue))
            IN  /\ pc' = "running"
                /\ total' = Len(queue)
                /\ \E b0 \in {[Batch EXCEPT !.workers = c]} :
                   \E b \in {Launch(b0, c)} : SetBatch(b)

InstallMissingPackages ==
    /\ op = "install"
    /\ StartBatch
    /\ UNCHANGED <<op, outcomes, storeVars, diffVars, flowVars>>

RemoveObsoletePackages ==
    /\ op = "remove"
    /\ StartBatch
    /\ UNCHANGED <<op, outcomes, storeVars, diffVars, flowVars>>

\* packageManager.install calls back for an item in flight; the worker that
\* awaits it resumes, books the outcome and goes on to the next item.
InstallPackageDone(name, ok) ==
    /\ op = "install"
    /\ pc = "running"
    /\ name \in notifications
    /\ ok \in outcomes[name]
    /\ \E settled \in {Settle(Batch, name, ok)} :
       \E b \in {NextPackage(settled)} :
            SetBatch([b EXCEPT !.rejected = IF ok THEN @ ELSE @ \cup {name}])
    /\ UNCHANGED <<op, pc, total, outcomes, storeVars, diffVars, flowVars>>

RemovePackageDone(name, ok) ==
    /\ op = "remove"
    /\ pc = "running"
    /\ name \in notifications
    /\ ok \in outcomes[name]
    /\ \E settled \in {Settle(Batch, name, ok)} :
       \E b \in {NextPackage(settled)} :
            SetBatch([b EXCEPT !.rejected = IF ok THEN @ ELSE @ \cup {name}])
    /\ UNCHANGED <<op, pc, total, outcomes, storeVars, diffVars, flowVars>>

\* await Promise.all(result) resumes once every worker has returned.
BatchSettled ==
    /\ pc = "running"
    /\ workers = 0
    /\ pc' = "done"
    /\ UNCHANGED <<op, total, queue, notifications, succeeded, failed,
                   reports, workers, attempts, rejected, outcomes,
                   storeVars, diffVars, flowVars>>

\* The configuration store and the snapshots while only a batch runs.
IdleStore ==
    /\ atomConfig = [settings |-> [t |-> "obj", kv |-> <<>>], scoped |-> <<>>]
    /\ configBefore = [restored |-> FALSE]
    /\ localData = [settings |-> [t |-> "null"], packages |-> [t |-> "null"],
                    files |-> [null |-> TRUE]]
    /\ backupData = localData
    /\ diffData = [computed |-> FALSE]

InitExecutor ==
    /\ op \in {"install", "remove"}
    /\ pc = "start"
    /\ \E n \in 0..MaxItems : queue = Items(n)
    /\ total = 0
    /\ notifications = {}
    /\ succeeded = EmptyBag
    /\ failed = EmptyBag
    /\ reports = <<>>
    /\ workers = 0
    /\ attempts = EmptyBag
    /\ rejected = {}

\* Every install / uninstall may succeed or fail.
InitBatch ==
    /\ InitExecutor
    /\ IdleStore
    /\ IdleFlow
    /\ outcomes = [x \in 1..MaxItems |-> BOOLEAN]

\* The package manager's answers are fixed beforehand: no item fails, every
\* item fails, the odd ones fail, only the first fails, only the last fails.
FailurePatterns ==
    { {}, 1..MaxItems, {x \in 1..MaxItems : x % 2 = 1}, {1}, {MaxItems} }

InitFairBatch ==
    /\ InitExecutor
    /\ IdleStore
    /\ IdleFlow
    /\ \E f \in FailurePatterns :
            outcomes = [x \in 1..MaxItems |-> {x \notin f}]

NextBatch ==
    \/ InstallMissingPackages
    \/ RemoveObsoletePackages
    \/ \E name \in 1..MaxItems, ok \in BOOLEAN : InstallPackageDone(name, ok)
    \/ \E name \in 1..MaxItems, ok \in BOOLEAN : RemovePackageDone(name, ok)
    \/ BatchSettled

SpecBatch == InitBatch /\ [][NextBatch]_vars



\* Every callback of the package manager and every continuation that is ready
\* to run eventually runs.
FairSpecBatch == InitFairBatch /\ [][NextBatch]_vars /\ WF_vars(NextBatch)

(***************************************************************************)
(* JSON values.  A value is a leaf (string, number, boolean: kept as a     *)
(* string), an object (a function from keys to values), null or undefined. *)
(* A key path 'a.b.c' is the sequence of its keys; the empty key path ''   *)
(* is the empty sequence.                                                  *)
(***************************************************************************)
Leaf(v) == [t |-> "leaf", v |-> v]

Obj(f) == [t |-> "obj", kv |-> f]

Null == [t |-> "null"]

Undefined == [t |-> "undefined"]

EmptyObj == Obj(<<>>)

\* obj[key] = value on a copy of the object.
Extend(f, key, value) ==
    [k \in DOMAIN f \cup {key} |-> IF k = key THEN value ELSE f[k]]

\* delete obj[key] on a copy of the object.
Without(f, key) == [k \in DOMAIN f \ {key} |-> f[k]]

\* deep-object-diff isObject: o != null && typeof o === 'object'
IsObject(n) == n.t = "obj"

\* deep-object-diff isEmpty: Object.keys(o).length === 0
IsEmpty(n) == DOMAIN n.kv = {}

\* `x == null`: null or undefined.
IsNullish(n) == n.t \in {"null", "undefined"}

RECURSIVE addedDiff(_, _)
\* deep-object-diff addedDiff: the keys of rhs that lhs lacks, nested.
addedDiff(lhs, rhs) ==
    IF lhs = rhs \/ ~IsObject(lhs) \/ ~IsObject(rhs) THEN EmptyObj
    ELSE LET difference(key) == addedDiff(lhs.kv[key], rhs.kv[key])
             kept == {key \in DOMAIN rhs.kv :
                        key \in DOMAIN lhs.kv => ~IsEmpty(difference(key))}
         IN  Obj([key \in kept |->
                    IF key \in DOMAIN lhs.kv THEN difference(key)
                    ELSE rhs.kv[key]])

RECURSIVE deletedDiff(_, _)
\* deep-object-diff deletedDiff: the keys of lhs that rhs lacks, nested, each
\* with the value undefined.
deletedDiff(lhs, rhs) ==
    IF lhs = rhs \/ ~IsObject(lhs) \/ ~IsObject(rhs) THEN EmptyObj
    ELSE LET difference(key) == deletedDiff(lhs.kv[key], rhs.kv[key])
             kept == {key \in DOMAIN lhs.kv :
                        key \in DOMAIN rhs.kv => ~IsEmpty(difference(key))}
         IN  Obj([key \in kept |->
                    IF key \in DOMAIN rhs.kv THEN difference(key)
                    ELSE Undefined])

RECURSIVE updatedDiff(_, _)
\* deep-object-diff updatedDiff: the keys of both sides whose values differ,
\* nested, each with the value of rhs.
updatedDiff(lhs, rhs) ==
    IF lhs = rhs THEN EmptyObj
    ELSE IF ~IsObject(lhs) \/ ~IsObject(rhs) THEN rhs
    ELSE LET difference(key) == updatedDiff(lhs.kv[key], rhs.kv[key])
             kept == {key \in DOMAIN rhs.kv \cap DOMAIN lhs.kv :
                        ~(IsObject(difference(key)) /\ IsEmpty(difference(key)))}
         IN  Obj([key \in kept |-> difference(key)])

\* diffObject.detailedDiff(lhs, rhs)
detailedDiff(lhs, rhs) ==
    [added |-> addedDiff(lhs, rhs),
     deleted |-> deletedDiff(lhs, rhs),
     updated |-> updatedDiff(lhs, rhs)]

RECURSIVE getValueAtKeyPath(_, _)
\* key-path-helpers getValueAtKeyPath: the value at the key path, the object
\* itself for the empty key path, undefined when a key on the way is missing.
getValueAtKeyPath(object, keyPath) ==
    IF keyPath = <<>> THEN object
    ELSE IF IsObject(object) /\ Head(keyPath) \in DOMAIN object.kv
    THEN getValueAtKeyPath(object.kv[Head(keyPath)], Tail(keyPath))
    ELSE Undefined

\* atom.config.get(keyPath) without a scope: the value of the global settings.
\* A key path that starts with a scope selector ('.source.js. ...') names no
\* global key.  The defaults of a configuration schema are not part of the
\* source: the key paths of the model are keys without a default.
ConfigGet(keyPath) == getValueAtKeyPath(atomConfig.settings, keyPath)

(***************************************************************************)
(* The blacklist and the settings tree.                                    *)
(***************************************************************************)
REMOVE_KEYS ==
    << <<"sync-settings", "gistId">>,
       <<"sync-settings", "personalAccessToken">>,
       <<"sync-settings", "hiddenSettings", "_lastBackupTime">>,
       <<"sync-settings", "_analyticsUserId">>,
       <<"sync-settings", "_lastBackupHash">>,
       <<"sync-settings", "hiddenSettings", "_lastBackupHash">> >>

\* A setting whose value is a list of key paths.
List(items) == [t |-> "list", items |-> items]

\* [...REMOVE_KEYS, ...atom.config.get('sync-settings.blacklistedKeys') || []]
\* read from the global settings given.
BlacklistedKeysOf(settings) ==
    LET value == getValueAtKeyPath(settings, <<"sync-settings", "blacklistedKeys">>)
    IN  REMOVE_KEYS \o (IF value.t = "list" THEN value.items ELSE <<>>)

\* The blacklist of the live configuration.
AllBlacklistedKeys == BlacklistedKeysOf(atomConfig.settings)

RECURSIVE setValueAtKeyPath(_, _, _)
\* key-path-helpers setValueAtKeyPath on a copy of the object: missing (or
\* null) objects on the way are created; a leaf on the way keeps the
\* assignment from having any effect.
setValueAtKeyPath(object, keyPath, value) ==
    IF Len(keyPath) = 1 THEN Obj(Extend(object.kv, keyPath[1], value))
    ELSE LET key == Head(keyPath)
             child == IF key \notin DOMAIN object.kv \/ IsNullish(object.kv[key])
                      THEN EmptyObj ELSE object.kv[key]
         IN  IF IsObject(child)
             THEN Obj(Extend(object.kv, key,
                             setValueAtKeyPath(child, Tail(keyPath), value)))
             ELSE object

RECURSIVE deleteValueAtKeyPath(_, _)
\* key-path-helpers deleteValueAtKeyPath on a copy of the object: the last
\* key is deleted; nothing happens when a key on the way is missing.
deleteValueAtKeyPath(object, keyPath) ==
    IF Len(keyPath) = 1 THEN Obj(Without(object.kv, keyPath[1]))
    ELSE LET key == Head(keyPath)
         IN  IF key \notin DOMAIN object.kv \/ ~IsObject(object.kv[key])
             THEN object
             ELSE Obj(Extend(object.kv, key,
                             deleteValueAtKeyPath(object.kv[key], Tail(keyPath))))

RECURSIVE DeleteKeys(_, _)
\* for (const blacklistedKey of blacklistedKeys) deleteValueAtKeyPath(...)
DeleteKeys(object, keys) ==
    IF keys = <<>> THEN object
    ELSE DeleteKeys(deleteValueAtKeyPath(object, Head(keys)), Tail(keys))

\* getFilteredSettings(): a copy of the global settings under '*' plus the
\* scoped settings of the main source, with the blacklisted key paths
\* deleted from the '*' subtree.
getFilteredSettings ==
    LET settings == "*" :> atomConfig.settings @@ atomConfig.scoped
    IN  Obj(Extend(settings, "*", DeleteKeys(settings["*"], AllBlacklistedKeys)))

RECURSIVE SeedKeys(_, _)
\* The loop of addFilteredSettings: every blacklisted key that has a value
\* in the live configuration is set to that value in settings['*'].
SeedKeys(object, keys) ==
    IF keys = <<>> THEN object
    ELSE LET value == ConfigGet(Head(keys))
         IN  SeedKeys(IF value # Undefined
                      THEN setValueAtKeyPath(object, Head(keys), value)
                      ELSE object,
                      Tail(keys))

\* addFilteredSettings(settings)
addFilteredSettings(settings) ==
    Obj(Extend(settings.kv, "*", SeedKeys(settings.kv["*"], AllBlacklistedKeys)))

RECURSIVE deepMerge(_, _)
\* The scoped settings store merging the properties added for a selector
\* into those it holds: objects are merged key by key, the added value wins.
deepMerge(old, new) ==
    IF IsObject(old) /\ IsObject(new)
    THEN Obj([k \in DOMAIN old.kv \cup DOMAIN new.kv |->
                IF k \notin DOMAIN new.kv THEN old.kv[k]
                ELSE IF k \notin DOMAIN old.kv THEN new.kv[k]
                ELSE deepMerge(old.kv[k], new.kv[k])])
    ELSE new

\* atom.config.set(null, value, { scopeSelector }): the selector '*' replaces
\* the global settings, any other selector adds to the scoped settings.
ConfigSet(config, value, scopeSelector) ==
    IF scopeSelector = "*" THEN [config EXCEPT !.settings = value]
    ELSE [config EXCEPT !.scoped =
            Extend(@, scopeSelector,
                   IF scopeSelector \in DOMAIN @
                   THEN deepMerge(@[scopeSelector], value) ELSE value)]

RECURSIVE SetScopes(_, _, _)
\* for (const scopeSelector in settings) atom.config.set(null, ...)
SetScopes(config, settings, selectors) ==
    IF selectors = {} THEN config
    ELSE LET scopeSelector == CHOOSE sel \in selectors : TRUE
         IN  SetScopes(ConfigSet(config, settings.kv[scopeSelector], scopeSelector),
                       settings, selectors \ {scopeSelector})

\* updateSettings(settings): the configuration store after it.
updateSettings(settings) ==
    LET wrapped == IF "*" \in DOMAIN settings.kv THEN settings
                   ELSE Obj("*" :> settings)
        seeded == addFilteredSettings(wrapped)
    IN  SetScopes(atomConfig, seeded, DOMAIN seeded.kv)

(***************************************************************************)
(* The diff engine.  A snapshot is [settings, packages, files]: settings   *)
(* and packages are Null or an object, files is NoFiles or Files(map).     *)
(* A sub-diff is NullDiff or a record of three buckets, each NoBucket or   *)
(* Bucket(val).                                                            *)
(***************************************************************************)
NoFiles == [null |-> TRUE]

Files(map) == [null |-> FALSE, map |-> map]

\* Object.keys(data.files || {})
FileNames(files) == IF files.null THEN {} ELSE DOMAIN files.map

NoBucket == [has |-> FALSE]

Bucket(val) == [has |-> TRUE, val |-> val]

NullDiff == [null |-> TRUE]

\* `{}`: a sub-diff that exists and has no bucket yet.
EmptyDiff ==
    [null |-> FALSE, added |-> NoBucket, updated |-> NoBucket, deleted |-> NoBucket]

RECURSIVE settingsToKeyPaths(_, _, _)
\* settingsToKeyPaths(obj, prefix, getOldValue): the leaves of obj, each with
\* its key path.  A null or undefined value is looked up in the live
\* configuration first.  The list is kept as the set of its entries.
settingsToKeyPaths(obj, prefix, getOldValue) ==
    UNION {
        LET nextPrefix == IF prefix # <<>> THEN Append(prefix, prop)
                          ELSE IF prop = "*" THEN <<>> ELSE <<prop>>
            item == IF IsNullish(obj[prop]) THEN ConfigGet(nextPrefix) ELSE obj[prop]
        IN  IF item.t = "obj" THEN settingsToKeyPaths(item.kv, nextPrefix, getOldValue)
            ELSE IF item.t = "null" THEN {}
            ELSE IF getOldValue
            THEN {[keyPath |-> nextPrefix, value |-> item,
                   oldValue |-> ConfigGet(nextPrefix)]}
            ELSE {[keyPath |-> nextPrefix, value |-> item]}
        : prop \in DOMAIN obj }

\* Mutant: the bucket is created anew for every entry.
addDiffFileOverwrite(diffData_, method, fileName, fileObj) ==
    LET withFiles == IF diffData_.files.null THEN EmptyDiff ELSE diffData_.files
    IN  [diffData_ EXCEPT
            !.files = [withFiles EXCEPT
                          ![method] = Bucket(Extend(<<>>, fileName, fileObj))]]

\* addDiffFile(diffData, method, fileName, fileObj): create the files
\* sub-diff and the bucket when they do not exist yet, then add the entry.
addDiffFile(diffData_, method, fileName, fileObj) ==
    LET withFiles == IF diffData_.files.null THEN EmptyDiff ELSE diffData_.files
        bucket == IF withFiles[method].has THEN withFiles[method].val ELSE <<>>
    IN  [diffData_ EXCEPT
            !.files = [withFiles EXCEPT
                          ![method] = Bucket(Extend(bucket, fileName, fileObj))]]

\* diff.createTwoFilesPatch('local', 'backup', before, after, ...)
createTwoFilesPatch(before, after) == [patch |-> <<before, after>>]

\* Mutant: the emptied diff is reported as an object without buckets.
DiffSettingsKeepEmpty(localData_, backupData_) ==
    IF backupData_.settings # Null /\ localData_.settings # Null
    THEN LET d == detailedDiff(localData_.settings, backupData_.settings)
         IN  [null |-> FALSE,
              added |-> IF IsEmpty(d.added) THEN NoBucket
                        ELSE Bucket(settingsToKeyPaths(d.added.kv, <<>>, FALSE)),
              updated |-> IF IsEmpty(d.updated) THEN NoBucket
                          ELSE Bucket(settingsToKeyPaths(d.updated.kv, <<>>, TRUE)),
              deleted |-> IF IsEmpty(d.deleted) THEN NoBucket
                          ELSE Bucket(settingsToKeyPaths(d.deleted.kv, <<>>, FALSE))]
    ELSE IF backupData_.settings # Null
    THEN [EmptyDiff EXCEPT
            !.added = Bucket(settingsToKeyPaths(backupData_.settings.kv, <<>>, FALSE))]
    ELSE IF localData_.settings # Null
    THEN [EmptyDiff EXCEPT
            !.deleted = Bucket(settingsToKeyPaths(localData_.settings.kv, <<>>, FALSE))]
    ELSE NullDiff

\* The settings sub-diff of getDiffData.
DiffSettings(localData_, backupData_) ==
    IF backupData_.settings # Null /\ localData_.settings # Null
    THEN LET d == detailedDiff(localData_.settings, backupData_.settings)
         IN  IF IsEmpty(d.added) /\ IsEmpty(d.updated) /\ IsEmpty(d.deleted)
             THEN NullDiff
             ELSE [null |-> FALSE,
                   added |-> IF IsEmpty(d.added) THEN NoBucket
                             ELSE Bucket(settingsToKeyPaths(d.added.kv, <<>>, FALSE)),
                   updated |-> IF IsEmpty(d.updated) THEN NoBucket
                               ELSE Bucket(settingsToKeyPaths(d.updated.kv, <<>>, TRUE)),
                   deleted |-> IF IsEmpty(d.deleted) THEN NoBucket
                               ELSE Bucket(settingsToKeyPaths(d.deleted.kv, <<>>, FALSE))]
    ELSE IF backupData_.settings # Null
    THEN [EmptyDiff EXCEPT
            !.added = Bucket(settingsToKeyPaths(backupData_.settings.kv, <<>>, FALSE))]
    ELSE IF localData_.settings # Null
    THEN [EmptyDiff EXCEPT
            !.deleted = Bucket(settingsToKeyPaths(localData_.settings.kv, <<>>, FALSE))]
    ELSE NullDiff

\* The packages sub-diff of getDiffData.
DiffPackages(localData_, backupData_) ==
    IF backupData_.packages # Null /\ localData_.packages # Null
    THEN LET d == detailedDiff(localData_.packages, backupData_.packages)
         IN  IF IsEmpty(d.added) /\ IsEmpty(d.updated) /\ IsEmpty(d.deleted)
             THEN NullDiff
             ELSE [null |-> FALSE,
                   added |-> IF IsEmpty(d.added) THEN NoBucket
                             ELSE Bucket(d.added.kv),
                   updated |-> IF IsEmpty(d.updated) THEN NoBucket
                               ELSE Bucket([name \in DOMAIN d.updated.kv |->
                                        [backup |-> backupData_.packages.kv[name],
                                         local |-> localData_.packages.kv[name]]]),
                   deleted |-> IF IsEmpty(d.deleted) THEN NoBucket
                               ELSE Bucket([name \in DOMAIN d.deleted.kv |->
                                        localData_.packages.kv[name]])]
    ELSE IF backupData_.packages # Null
    THEN [EmptyDiff EXCEPT !.added = Bucket(backupData_.packages.kv)]
    ELSE IF localData_.packages # Null
    THEN [EmptyDiff EXCEPT !.deleted = Bucket(localData_.packages.kv)]
    ELSE NullDiff

RECURSIVE DiffFiles(_, _, _, _)
\* The loop of getDiffData over the file names of both sides.
DiffFiles(data, fileNames, localData_, backupData_) ==
    IF fileNames = {} THEN data
    ELSE LET fileName == CHOOSE n \in fileNames : TRUE
             hasBackup == fileName \in FileNames(backupData_.files)
             hasLocal == fileName \in FileNames(localData_.files)
             next ==
                IF hasBackup /\ hasLocal
                THEN LET backupFile == backupData_.files.map[fileName]
                         localFile == localData_.files.map[fileName]
                     IN  IF localFile.content # backupFile.content
                         THEN addDiffFile(data, "updated", fileName,
                                  [backupFile EXCEPT !.content =
                                      createTwoFilesPatch(localFile.content,
                                                          backupFile.content)])
                         ELSE data
                ELSE IF hasBackup
                THEN addDiffFile(data, "added", fileName,
                                 backupData_.files.map[fileName])
                ELSE IF hasLocal
                THEN addDiffFile(data, "deleted", fileName,
                                 localData_.files.map[fileName])
                ELSE data
             done == CHOOSE d \in {next} : TRUE
         IN  DiffFiles(done, fileNames \ {fileName}, localData_, backupData_)

\* getDiffData(localData, backupData)
getDiffData(localData_, backupData_) ==
    DiffFiles([settings |-> DiffSettings(localData_, backupData_),
               packages |-> DiffPackages(localData_, backupData_),
               files |-> NullDiff],
              FileNames(localData_.files) \cup FileNames(backupData_.files),
              localData_, backupData_)

(***************************************************************************)
(* The inputs of the diff engine: small settings trees (a global scope     *)
(* and a scoped selector, nested two levels), package maps and file maps.  *)
(***************************************************************************)
LeafVals == {ToString(i) : i \in 1..MaxVal}

\* The values of one settings key: a leaf, an empty object, a nested key.
SubTrees ==
    {Leaf(v) : v \in LeafVals} \cup {EmptyObj}
        \cup {Obj("x" :> Leaf(v)) : v \in LeafVals}

\* The settings of one scope.
ScopeTrees == {EmptyObj} \cup {Obj("e" :> sub) : sub \in SubTrees}

\* A settings tree: the global scope '*', with or without a scoped selector.
SettingsTrees ==
    {Obj("*" :> a) : a \in ScopeTrees}
        \cup {Obj("*" :> a @@ ".src" :> b) : a \in ScopeTrees, b \in ScopeTrees}

\* A package descriptor as getPackages builds it (lines 396-402).
Descriptor(version, theme, apmInstallSource) ==
    Obj("version" :> Leaf(version)
        @@ (IF theme THEN "theme" :> Leaf("true") ELSE <<>>)
        @@ (IF apmInstallSource
            THEN "apmInstallSource" :> Obj("source" :> Leaf("git"))
            ELSE <<>>))

Descriptors ==
    {Descriptor(v, th, src) : v \in LeafVals, th \in BOOLEAN, src \in BOOLEAN}

PackageMaps ==
    {Obj(f) : f \in {<<>>} \cup {"foo" :> d : d \in Descriptors}}
        \cup {Obj(f @@ "bar" :> Descriptor("1", FALSE, FALSE)) :
                f \in {<<>>} \cup {"foo" :> d : d \in Descriptors}}

FileNameSet == {"keymap.cson", "styles.less", "init.coffee"}

File(name, content) == [path |-> <<"configDir", name>>, content |-> content]

\* The file maps of a snapshot: never empty (lines 298-302, 635-639).
FileMaps ==
    UNION {{[n \in names |-> File(n, c[n])] : c \in [names -> LeafVals]} :
            names \in SUBSET FileNameSet \ {{}}}

SampleSettings == Obj("*" :> Obj("e" :> Leaf("1")))

SamplePackages == Obj("foo" :> Descriptor("1", FALSE, FALSE))

SampleFiles == Files("keymap.cson" :> File("keymap.cson", "1"))

\* The snapshots the diff is computed on: one category ranges over all its
\* values while the two others are absent or a fixed sample.
Snapshots(focus) ==
    [settings : IF focus = "settings" THEN {Null} \cup SettingsTrees
                ELSE IF focus = "packages" THEN {Null, SampleSettings}
                ELSE {Null},
     packages : IF focus = "packages" THEN {Null} \cup PackageMaps
                ELSE IF focus = "files" THEN {Null, SamplePackages}
                ELSE {Null},
     files : IF focus = "files" THEN {NoFiles} \cup {Files(m) : m \in FileMaps}
             ELSE IF focus = "settings" THEN {NoFiles, SampleFiles}
             ELSE {NoFiles}]
    \cup [settings : {SampleSettings}, packages : {SamplePackages},
          files : {SampleFiles}]

NotComputed == [computed |-> FALSE]

NotRestored == [restored |-> FALSE]

IdleBatch ==
    /\ op = "install"
    /\ pc = "idle"
    /\ queue = <<>>
    /\ total = 0
    /\ notifications = {}
    /\ succeeded = EmptyBag
    /\ failed = EmptyBag
    /\ reports = <<>>
    /\ workers = 0
    /\ attempts = EmptyBag
    /\ rejected = {}
    /\ outcomes = <<>>

IdleDiff ==
    /\ localData = [settings |-> Null, packages |-> Null, files |-> NoFiles]
    /\ backupData = [settings |-> Null, packages |-> Null, files |-> NoFiles]
    /\ diffData = NotComputed

InitDiff ==
    /\ IdleBatch
    /\ IdleFlow
    /\ \E focus \in {"settings", "packages", "files"} :
          /\ localData \in Snapshots(focus)
          /\ backupData \in Snapshots(focus)
          /\ \E live \in (IF focus = "settings" THEN ScopeTrees ELSE {EmptyObj}) :
                atomConfig = [settings |-> live, scoped |-> <<>>]
    /\ configBefore = NotRestored
    /\ diffData = NotComputed

\* const diffData = await this.getDiffData(localData, backupData)
GetDiffData ==
    /\ diffData = NotComputed
    /\ diffData' = getDiffData(localData, backupData)
    /\ UNCHANGED <<batchVars, storeVars, localData, backupData, flowVars>>

NextDiff == GetDiffData

SpecDiff == InitDiff /\ [][NextDiff]_vars

(***************************************************************************)
(* The inputs of the settings filter: a live configuration and the         *)
(* settings of a backup, built from a few key paths.  Two key paths are    *)
(* reserved keys, 'e.x' is a key the user may blacklist, 'e.y' is a key    *)
(* nobody blacklists.  The keys have no schema default: a key path without *)
(* a value is unset and atom.config.get yields undefined for it.           *)
(***************************************************************************)
HashKey == <<"sync-settings", "_lastBackupHash">>

HiddenHashKey == <<"sync-settings", "hiddenSettings", "_lastBackupHash">>

UserKey == <<"e", "x">>

PlainKey == <<"e", "y">>

RECURSIVE BuildTree(_, _, _)
\* The tree that holds values[i] at keyPaths[i], for the values that are set.
BuildTree(tree, keyPaths, values) ==
    IF keyPaths = <<>> THEN tree
    ELSE BuildTree(IF Head(values) = Undefined THEN tree
                   ELSE setValueAtKeyPath(tree, Head(keyPaths), Head(values)),
                   Tail(keyPaths), Tail(values))

TreesOver(keyPaths) ==
    {BuildTree(EmptyObj, keyPaths, values) :
        values \in [1..Len(keyPaths) -> {Undefined} \cup {Leaf(v) : v \in LeafVals}]}

\* The tree with and without a user blacklist that names 'e.x'.
WithUserBlacklist(trees) ==
    trees \cup {setValueAtKeyPath(tree, <<"sync-settings", "blacklistedKeys">>,
                                  List(<<UserKey>>)) : tree \in trees}

LiveSettings == WithUserBlacklist(TreesOver(<<HashKey, HiddenHashKey, UserKey>>))

\* The scoped settings of the live configuration: none, or a selector that
\* overrides a reserved key and the key the user may blacklist.
LiveScoped ==
    {<<>>, ".src" :> BuildTree(EmptyObj, <<HashKey, UserKey>>,
                              <<Leaf("1"), Leaf("1")>>)}

\* The settings of a backup: keyed by scope selector, with or without a
\* scoped selector, or the tree of a backup made before v2.0.2.
BackupSettings ==
    LET trees == WithUserBlacklist(TreesOver(<<HashKey, UserKey, PlainKey>>))
    IN  {Obj("*" :> tree) : tree \in trees}
            \cup {Obj("*" :> tree
                      @@ ".src" :> BuildTree(EmptyObj, <<UserKey>>, <<Leaf("2")>>)) :
                    tree \in trees}
            \cup trees

InitSettings ==
    /\ IdleBatch
    /\ IdleFlow
    /\ atomConfig \in [settings : LiveSettings, scoped : LiveScoped]
    /\ configBefore = NotRestored
    /\ localData = [settings |-> Null, packages |-> Null, files |-> NoFiles]
    /\ backupData \in [settings : {Null} \cup BackupSettings,
                        packages : {Null}, files : {NoFiles}]
    /\ diffData = NotComputed

\* getLocalData: data.settings = this.getFilteredSettings()
GetFilteredSettings ==
    /\ localData' = [localData EXCEPT !.settings = getFilteredSettings]
    /\ UNCHANGED <<batchVars, storeVars, backupData, diffData, flowVars>>

\* restore: if (backupData.settings) this.updateSettings(backupData.settings)
UpdateSettings ==
    /\ backupData.settings # Null
    /\ atomConfig' = updateSettings(backupData.settings)
    /\ configBefore' = atomConfig
    /\ UNCHANGED <<batchVars, diffVars, flowVars>>

NextSettings == GetFilteredSettings \/ UpdateSettings

SpecSettings == InitSettings /\ [][NextSettings]_vars

(***************************************************************************)
(* The flows: the data they handle.  A file content is the text of a user  *)
(* file or the JSON text of a value; the configuration directory is `disk`,*)
(* the remote backup is `gist`.                                            *)
(***************************************************************************)
Text(text) == [kind |-> "text", text |-> text]

\* fileContent found nothing to return.
NoContent == [kind |-> "none"]

\* `${cmtstart} ${file} (not found) ${cmtend}`
Placeholder == Text("(not found)")

RECURSIVE Jsonify(_)
\* The value a JSON text stands for: members that are undefined are left out.
Jsonify(value) ==
    IF IsObject(value)
    THEN Obj([k \in {key \in DOMAIN value.kv : value.kv[key] # Undefined} |->
                Jsonify(value.kv[k])])
    ELSE value

\* JSON.stringify(value, null, '\t')
JSONstringify(value) == [kind |-> "json", value |-> Jsonify(value)]

\* JSON.parse(content): the value, or a SyntaxError for a text that is no JSON.
JSONparse(content) ==
    IF content.kind = "json" THEN [ok |-> TRUE, value |-> content.value]
    ELSE [ok |-> FALSE]

\* file.replace(/\//g, '\\') on the file names of the model
Backslashed(file) == IF file = "dir/file" THEN "dir\\file" ELSE file

\* fileName.replace(/\\/g, '/') on the file names of the model
Slashed(fileName) == IF fileName = "dir\\file" THEN "dir/file" ELSE fileName

\* path.resolve(atom.getConfigDirPath(), file)
ConfigPath(file) == <<"configDir", file>>

\* atom.keymaps.getUserKeymapPath()
UserKeymapPath == ConfigPath("keymap.cson")

\* fileContent(filePath, nullString): the content of the file, or nullString
\* for a file that is missing or blank.
fileContent(filePath, nullString) ==
    IF filePath \in DOMAIN disk /\ disk[filePath].text # ""
    THEN disk[filePath]
    ELSE nullString

\* The argument nullString of fileContent in getLocalData and addExtraFile.
NullString == IF profile.removeUnfamiliarFiles THEN NoContent ELSE Placeholder

IsTheme(descriptor) == "theme" \in DOMAIN descriptor.kv

\* getPackages(): the installed packages of the enabled categories.
getPackages ==
    Obj([name \in {n \in DOMAIN installed :
                     \/ profile.syncThemes /\ IsTheme(installed[n])
                     \/ profile.syncPackages /\ ~IsTheme(installed[n])} |->
            installed[name]])

\* addExtraFile(files, file, removeUnfamiliarFiles): the files afterwards; ok
\* is false when the warning about config.cson was raised instead.
addExtraFile(files, file) ==
    LET fileName == Backslashed(file)
        filePath == ConfigPath(file)
        content == fileContent(filePath, NullString)
    IN  IF fileName \in DOMAIN files THEN [ok |-> TRUE, files |-> files]
        ELSE IF file = "config.cson" /\ profile.token /\ profile.warnBackupConfig
        THEN [ok |-> FALSE, files |-> files]
        ELSE IF content # NoContent
        THEN [ok |-> TRUE,
              files |-> Extend(files, fileName,
                               [path |-> filePath, content |-> content])]
        ELSE [ok |-> TRUE, files |-> files]

RECURSIVE AddExtraFiles(_, _)
\* for (const file of extraFiles) { if (!await this.addExtraFile(...)) return }
AddExtraFiles(files, extraFiles) ==
    IF extraFiles = <<>> THEN [ok |-> TRUE, files |-> files]
    ELSE LET added == addExtraFile(files, Head(extraFiles))
         IN  IF added.ok THEN AddExtraFiles(added.files, Tail(extraFiles))
             ELSE added

\* getLocalData(): the local snapshot, or no snapshot (ok is false) after the
\* warning about config.cson.
getLocalData ==
    LET keymap == fileContent(UserKeymapPath, NullString)
        wellKnown == IF profile.syncKeymap /\ keymap # NoContent
                     THEN "keymap.cson" :> [path |-> UserKeymapPath,
                                            content |-> keymap]
                     ELSE <<>>
        withExtra == AddExtraFiles(wellKnown, profile.extraFiles)
    IN  IF ~withExtra.ok THEN [ok |-> FALSE]
        ELSE [ok |-> TRUE,
              data |-> [settings |-> IF profile.syncSettings
                                     THEN getFilteredSettings ELSE Null,
                        packages |-> IF profile.syncPackages \/ profile.syncThemes
                                     THEN getPackages ELSE Null,
                        files |-> IF withExtra.files = <<>> THEN NoFiles
                                  ELSE Files(withExtra.files)]]

\* A file of the upload that asks the remote store to delete it.
DeleteFile == [kind |-> "delete"]

\* backup: the files of the upload built from the local snapshot; a later
\* assignment to the same name replaces an earlier one.
UploadFiles(localData_) ==
    LET settingsFile == IF localData_.settings # Null
                        THEN "settings.json" :> JSONstringify(localData_.settings)
                        ELSE <<>>
        packagesFile == IF localData_.packages # Null
                        THEN "packages.json" :> JSONstringify(localData_.packages)
                        ELSE <<>>
        userFiles == IF localData_.files # NoFiles
                     THEN [fileName \in DOMAIN localData_.files.map |->
                              localData_.files.map[fileName].content]
                     ELSE <<>>
    IN  userFiles @@ packagesFile @@ settingsFile

\* backup with removeUnfamiliarFiles: files[fileName] = { filename: null } for
\* the files the diff lists as added.
WithDeletions(files, diffData_) ==
    IF ~diffData_.files.null /\ diffData_.files.added.has
    THEN [fileName \in DOMAIN diffData_.files.added.val |-> DeleteFile] @@ files
    ELSE files

\* The files of the remote backup after gist.update with the upload.
GistUpdate(remoteFiles, upload) ==
    [fileName \in {n \in DOMAIN remoteFiles \cup DOMAIN upload :
                     n \in DOMAIN upload => upload[n] # DeleteFile} |->
        IF fileName \in DOMAIN upload THEN upload[fileName]
        ELSE remoteFiles[fileName]]

\* filterObject(packages, filterFn) for the filters of getBackupData: the
\* packages of the enabled categories.
FilterPackages(packages) ==
    Obj([name \in {n \in DOMAIN packages.kv :
                     /\ profile.syncPackages \/ IsTheme(packages.kv[n])
                     /\ profile.syncThemes \/ ~IsTheme(packages.kv[n])} |->
            packages.kv[name]])

\* The slots of getBackupData that parse their blob, when they are enabled.
ParsedSlots ==
    (IF profile.syncSettings THEN {"settings.json"} ELSE {})
        \cup (IF profile.syncPackages \/ profile.syncThemes
              THEN {"packages.json"} ELSE {})

\* The blobs whose JSON.parse throws.
ParseFailures(files) ==
    {fileName \in DOMAIN files \cap ParsedSlots : ~JSONparse(files[fileName]).ok}

\* The key under which getBackupData files a blob, "" for a blob it skips.
ClassifiedAs(fileName) ==
    IF fileName \in {"settings.json", "packages.json"} THEN ""
    ELSE IF fileName \in {"keymap.cson", "keymap.json"}
    THEN (IF profile.syncKeymap THEN fileName ELSE "")
    ELSE IF \E i \in 1..Len(profile.extraFiles) :
                Slashed(profile.extraFiles[i]) = Slashed(fileName)
    THEN Slashed(fileName)
    ELSE ""

\* Mutant: a blob that fails to parse leaves its slot empty.
getBackupDataPartial(files) ==
    LET keys == {ClassifiedAs(n) : n \in DOMAIN files} \ {""}
        blobOf(key) == CHOOSE n \in DOMAIN files : ClassifiedAs(n) = key
        parsed(fileName) == fileName \in DOMAIN files \cap ParsedSlots
                                /\ JSONparse(files[fileName]).ok
    IN  [ok |-> TRUE,
         data |-> [settings |-> IF parsed("settings.json")
                                THEN JSONparse(files["settings.json"]).value
                                ELSE Null,
                   packages |-> IF parsed("packages.json")
                                THEN FilterPackages(
                                        JSONparse(files["packages.json"]).value)
                                ELSE Null,
                   files |-> IF keys = {} THEN NoFiles
                             ELSE Files([key \in keys |->
                                    [path |-> IF key \in {"keymap.cson", "keymap.json"}
                                              THEN UserKeymapPath ELSE ConfigPath(key),
                                     content |-> files[blobOf(key)]]])]]

\* getBackupData(files): the snapshot of the backup, or no snapshot (ok is
\* false) when a blob failed to parse.  The backups of the model hold no two
\* blobs that are filed under one key.
getBackupData(files) ==
    IF ParseFailures(files) # {} THEN [ok |-> FALSE]
    ELSE LET keys == {ClassifiedAs(n) : n \in DOMAIN files} \ {""}
             blobOf(key) == CHOOSE n \in DOMAIN files : ClassifiedAs(n) = key
             entries ==
                [key \in keys |->
                    [path |-> IF key \in {"keymap.cson", "keymap.json"}
                              THEN UserKeymapPath ELSE ConfigPath(key),
                     content |-> files[blobOf(key)]]]
         IN  [ok |-> TRUE,
              data |-> [settings |-> IF "settings.json" \in DOMAIN files
                                        /\ profile.syncSettings
                                     THEN JSONparse(files["settings.json"]).value
                                     ELSE Null,
                        packages |-> IF "packages.json" \in DOMAIN files
                                        /\ (profile.syncPackages \/ profile.syncThemes)
                                     THEN FilterPackages(
                                            JSONparse(files["packages.json"]).value)
                                     ELSE Null,
                        files |-> IF keys = {} THEN NoFiles ELSE Files(entries)]]

(***************************************************************************)
(* The flows: their inputs.  Packages are named 1, 2 (plain packages) and  *)
(* 3 (a theme).                                                            *)
(***************************************************************************)
\* The flows that one behaviour runs, one after the other.
MaxFlows == 2

PackageNames == {1, 2, 3}

\* The descriptor of a package of the model, with or without an install source.
PackageOf(name, apmInstallSource) == Descriptor("1", name = 3, apmInstallSource)

\* The installed packages: none, one package with or without an install
\* source, two packages and a theme.
InstalledSets ==
    { <<>>,
      1 :> PackageOf(1, FALSE),
      1 :> PackageOf(1, TRUE),
      1 :> PackageOf(1, FALSE) @@ 2 :> PackageOf(2, FALSE) @@ 3 :> PackageOf(3, FALSE) }

\* The packages a backup lists: one package with or without an install
\* source, another package in a later version and a theme.
BackupPackageSets ==
    { 1 :> PackageOf(1, FALSE),
      1 :> PackageOf(1, TRUE),
      2 :> Descriptor("2", FALSE, FALSE) @@ 3 :> PackageOf(3, FALSE) }

BaseProfile ==
    [token |-> TRUE, gistId |-> TRUE, syncSettings |-> TRUE,
     syncPackages |-> TRUE, syncThemes |-> TRUE, syncKeymap |-> TRUE,
     removeUnfamiliarFiles |-> FALSE, removeObsoletePackages |-> FALSE,
     warnBackupConfig |-> TRUE, extraFiles |-> <<>>]

\* The profiles: the base profile and the profiles that differ from it in
\* one option, in the two package options, in the two removal options, or
\* in the extra files (with both removal options off or on).
Profiles ==
    {BaseProfile}
        \cup {[BaseProfile EXCEPT ![f] = ~@] :
                f \in {"token", "gistId", "syncSettings", "syncPackages",
                       "syncThemes", "syncKeymap", "removeUnfamiliarFiles",
                       "removeObsoletePackages"}}
        \cup {[BaseProfile EXCEPT !.syncPackages = FALSE, !.syncThemes = FALSE]}
        \cup {[BaseProfile EXCEPT !.removeUnfamiliarFiles = TRUE,
                                  !.removeObsoletePackages = TRUE]}
        \cup {[BaseProfile EXCEPT !.extraFiles = x, !.removeUnfamiliarFiles = r,
                                  !.removeObsoletePackages = r] :
                x \in {<<"dir/file">>, <<"packages.json">>}, r \in BOOLEAN}
        \cup {[BaseProfile EXCEPT !.extraFiles = <<"config.cson">>,
                                  !.warnBackupConfig = w] : w \in BOOLEAN}

\* The key of the last-backup-time marker.
BackupTimeKey == <<"sync-settings", "hiddenSettings", "_lastBackupTime">>

\* The live settings of a flow: a plain key, and the marker as it is before
\* the first backup or restore (unset) or as an earlier one left it.
FlowSettings ==
    {BuildTree(EmptyObj, <<PlainKey>>, <<Leaf("1")>>),
     BuildTree(EmptyObj, <<PlainKey, BackupTimeKey>>, <<Leaf("1"), Leaf("0")>>)}

\* The files of the configuration directory: none, or a keymap and a file
\* in a directory.
Disks ==
    { <<>>,
      UserKeymapPath :> Text("1") @@ ConfigPath("dir/file") :> Text("1") }

\* The settings.json of a backup that differs from the live settings.
BackupSettingsBlob ==
    JSONstringify(Obj("*" :> BuildTree(EmptyObj, <<PlainKey>>, <<Leaf("2")>>)))

\* The settings.json of a backup this program did not write: it holds a
\* value at the key of the marker.
ForeignSettingsBlob ==
    JSONstringify(Obj("*" :> BuildTree(EmptyObj, <<PlainKey, BackupTimeKey>>,
                                       <<Leaf("2"), Leaf("9")>>)))

\* A blob that is no JSON text.
Malformed == Text("{")

\* The files of the remote backup: none, a full backup, a backup whose
\* settings or packages blob is malformed, a backup of another origin with
\* other blobs.
GistFiles ==
    LET packagesBlob(set) == JSONstringify(Obj(set))
        full == "settings.json" :> BackupSettingsBlob
                    @@ "keymap.cson" :> Text("2")
    IN  {<<>>}
            \cup {full @@ "packages.json" :> packagesBlob(set) : set \in BackupPackageSets}
            \cup {full @@ "packages.json" :> Malformed,
                  "settings.json" :> Malformed
                      @@ "packages.json" :> packagesBlob(1 :> PackageOf(1, FALSE)),
                  "settings.json" :> Malformed @@ "packages.json" :> Malformed
                      @@ "keymap.cson" :> Text("2"),
                  "settings.json" :> ForeignSettingsBlob
                      @@ "keymap.cson" :> Text("2")
                      @@ "keymap.json" :> Text("1") @@ "dir\\file" :> Text("2")}

\* The state of the batch executor between two batches.
FreshBatch ==
    [queue |-> <<>>, notifications |-> {}, succeeded |-> EmptyBag,
     failed |-> EmptyBag, reports |-> <<>>, workers |-> 0,
     attempts |-> EmptyBag, rejected |-> {}]

\* The locals of a flow that has not started.
NoFlow ==
    [name |-> "none", step |-> "idle", status |-> "returned", autoCheck |-> FALSE,
     committed_at |-> 0, pending |-> <<>>, upload |-> <<>>, completed |-> FALSE,
     count |-> 0, previous |-> "none", raised |-> 0, dismissed |-> 0]

InitFlow ==
    /\ op = "install"
    /\ pc = "idle"
    /\ total = 0
    /\ queue = <<>>
    /\ notifications = {}
    /\ succeeded = EmptyBag
    /\ failed = EmptyBag
    /\ reports = <<>>
    /\ workers = 0
    /\ attempts = EmptyBag
    /\ rejected = {}
    /\ outcomes = [name \in PackageNames |-> BOOLEAN]
    /\ atomConfig \in [settings : FlowSettings, scoped : {<<>>}]
    /\ configBefore = NotRestored
    /\ IdleDiff
    /\ profile \in Profiles
    /\ flow = NoFlow
    /\ notes = <<>>
    /\ gist \in [files : GistFiles, committed_at : {1}]
    /\ disk \in Disks
    /\ installed \in InstalledSets
    /\ effects = <<>>

(***************************************************************************)
(* The flows: their steps.  A flow runs from one await to the next in one  *)
(* step; the remote store answers a call with a response (`ok`), with a    *)
(* response that lacks the expected fields (`invalid`) or with an error.   *)
(***************************************************************************)
\* githubApi.errorMessage(err) of the errors a remote call throws.
Thrown == {"Not Found", "Bad credentials", "Error"}

RemoteOutcomes == {"ok", "invalid"} \cup Thrown

Note(type, about) == [type |-> type, about |-> about]

\* The notification of the catch block of a flow.
CatchNote(message) ==
    IF message = "Not Found" THEN Note("invalidGistId", "retry")
    ELSE IF message = "Bad credentials" THEN Note("invalidPersonalAccessToken", "retry")
    ELSE Note("error", "generic")

\* finally { signal.dismiss() }: the flow is left, with the status given.
Finally(locals, status) ==
    [locals EXCEPT !.step = "end", !.status = status, !.dismissed = @ + 1]

\* Mutant: the catch block reports the error and does not raise it again.
CatchSwallowed(message) ==
    /\ flow' = Finally(flow, "returned")
    /\ notes' = Append(notes, CatchNote(message))

\* The catch block of a flow: a prompt and a normal return for the two known
\* causes, else an error notification and `throw err`.
Catch(message) ==
    /\ flow' = Finally(flow, IF message \in {"Not Found", "Bad credentials"}
                             THEN "returned" ELSE "raised")
    /\ notes' = Append(notes, CatchNote(message))

\* Mutant: a `return` leaves the flow past its finally block.
ReturnUndismissed(notifications_) ==
    /\ flow' = [flow EXCEPT !.step = "end", !.status = "returned"]
    /\ notes' = notes \o notifications_

\* `return` after the notifications given.
Return(notifications_) ==
    /\ flow' = Finally(flow, "returned")
    /\ notes' = notes \o notifications_

\* invalidRes(res, ...) found the response lacking: its notification.
InvalidResNote == Note("error", "retrieving")

\* The checks of the credential and of the remote identifier at the start
\* of a flow: the prompt of the one that is missing.
MissingCredential(needsGistId) ==
    IF ~profile.token THEN <<Note("invalidPersonalAccessToken", "missing")>>
    ELSE IF needsGistId /\ ~profile.gistId THEN <<Note("invalidGistId", "missing")>>
    ELSE <<>>

\* A call of a flow: the flows of the model run one after the other.
CanStart == flow.status # "running" /\ flow.count < MaxFlows

\* The locals of a flow that was just called, after `const signal =
\* notify.signal(...)`.
Started(name, autoCheck) ==
    [NoFlow EXCEPT !.name = name, !.status = "running", !.autoCheck = autoCheck,
                   !.raised = 1,
                   !.count = flow.count + 1,
                   !.previous = IF flow.completed THEN flow.name ELSE "none"]

\* if (diffData.settings || diffData.packages || diffData.files)
HasDifference(d) ==
    d.settings # NullDiff \/ d.packages # NullDiff \/ d.files # NullDiff

NoSnapshot == [settings |-> Null, packages |-> Null, files |-> NoFiles]

RECURSIVE SeqOfSet(_)
\* The keys of an object, in the order a `for ... in` loop visits them.
SeqOfSet(set) ==
    IF set = {} THEN <<>>
    ELSE LET x == CHOOSE y \in set : TRUE
         IN  <<x>> \o SeqOfSet(set \ {x})

\* Nothing is left of an earlier flow.
FreshLocals ==
    /\ effects' = <<>>
    /\ SetBatch(FreshBatch)
    /\ pc' = "idle"
    /\ total' = 0
    /\ UNCHANGED <<op, outcomes>>

\* checkForUpdate(autoCheck) up to `await this.gist.get(...)`.
CheckForUpdate(autoCheck) ==
    /\ CanStart
    /\ FreshLocals
    /\ localData' = NoSnapshot
    /\ backupData' = NoSnapshot
    /\ diffData' = NotComputed
    /\ LET prompts == MissingCredential(TRUE)
       IN  /\ flow' = IF prompts = <<>>
                      THEN [Started("checkForUpdate", autoCheck) EXCEPT !.step = "get"]
                      ELSE Finally(Started("checkForUpdate", autoCheck), "returned")
           /\ notes' = prompts
    /\ UNCHANGED <<storeVars, profile, gist, disk, installed>>

\* checkForUpdate from the answer of gist.get to its end.
CheckGot(outcome) ==
    /\ flow.name = "checkForUpdate"
    /\ flow.step = "get"
    /\ LET backup == getBackupData(gist.files)
           local == getLocalData
       IN  \/ /\ outcome \in Thrown
              /\ Catch(outcome)
              /\ UNCHANGED diffVars
           \/ /\ outcome = "invalid"
              /\ Return(<<InvalidResNote>>)
              /\ UNCHANGED diffVars
           \/ /\ outcome = "ok"
              /\ ~backup.ok
              /\ \E fileName \in ParseFailures(gist.files) :
                    Return(<<Note("error", fileName)>>)
              /\ UNCHANGED diffVars
           \/ /\ outcome = "ok"
              /\ backup.ok
              /\ ~local.ok
              /\ Return(<<Note("warnBackupConfig", "config.cson")>>)
              /\ backupData' = backup.data
              /\ UNCHANGED <<localData, diffData>>
           \/ /\ outcome = "ok"
              /\ backup.ok
              /\ local.ok
              /\ \E d \in {getDiffData(local.data, backup.data)} :
                    /\ diffData' = d
                    /\ notes' = notes \o
                          (IF HasDifference(d)
                           THEN <<Note("newerBackup", gist.committed_at)>>
                           ELSE IF ~flow.autoCheck
                           THEN <<Note("success", "synchronized")>>
                           ELSE <<>>)
              /\ flow' = Finally([flow EXCEPT !.completed = TRUE,
                                               !.committed_at = gist.committed_at],
                                  "returned")
              /\ backupData' = backup.data
              /\ localData' = local.data
    /\ UNCHANGED <<batchVars, storeVars, profile, gist, disk, installed, effects>>

\* forkGistId(forkId) up to `await this.gist.fork(...)`.
ForkGistId ==
    /\ CanStart
    /\ FreshLocals
    /\ localData' = NoSnapshot
    /\ backupData' = NoSnapshot
    /\ diffData' = NotComputed
    /\ LET prompts == MissingCredential(FALSE)
       IN  /\ flow' = IF prompts = <<>>
                      THEN [Started("forkGistId", FALSE) EXCEPT !.step = "fork"]
                      ELSE Finally(Started("forkGistId", FALSE), "returned")
           /\ notes' = prompts
    /\ UNCHANGED <<storeVars, profile, gist, disk, installed>>

\* forkGistId from the answer of gist.fork to its end: the identifier of the
\* fork is saved in the profile.
ForkGot(outcome) ==
    /\ flow.name = "forkGistId"
    /\ flow.step = "fork"
    /\ \/ /\ outcome \in Thrown
          /\ Catch(outcome)
          /\ UNCHANGED <<profile, effects>>
       \/ /\ outcome = "invalid"
          /\ Return(<<InvalidResNote>>)
          /\ UNCHANGED <<profile, effects>>
       \/ /\ outcome = "ok"
          /\ profile' = [profile EXCEPT !.gistId = TRUE]
          /\ effects' = Append(effects, [e |-> "gistId"])
          /\ flow' = Finally([flow EXCEPT !.completed = TRUE], "returned")
          /\ notes' = Append(notes, Note("success", "forked"))
    /\ UNCHANGED <<batchVars, storeVars, diffVars, gist, disk, installed>>

\* atom.config.set('sync-settings.hiddenSettings._lastBackupTime', value)
SetBackupTime(config, committed_at) ==
    [config EXCEPT !.settings =
        setValueAtKeyPath(@, BackupTimeKey, Leaf(ToString(committed_at)))]

\* backup() up to its first remote call: the local snapshot, the files of
\* the upload, the checks of the credential and of the remote identifier.
Backup ==
    /\ CanStart
    /\ FreshLocals
    /\ backupData' = NoSnapshot
    /\ diffData' = NotComputed
    /\ LET local == getLocalData
           prompts == MissingCredential(TRUE)
       IN  IF ~local.ok
           THEN /\ flow' = Finally(Started("backup", FALSE), "returned")
                /\ notes' = <<Note("warnBackupConfig", "config.cson")>>
                /\ localData' = NoSnapshot
           ELSE /\ \E locals \in {[Started("backup", FALSE) EXCEPT
                                        !.upload = UploadFiles(local.data)]} :
                      flow' = IF prompts # <<>> THEN Finally(locals, "returned")
                              ELSE [locals EXCEPT
                                      !.step = IF profile.removeUnfamiliarFiles
                                               THEN "get" ELSE "update"]
                /\ notes' = prompts
                /\ localData' = local.data
    /\ UNCHANGED <<storeVars, profile, gist, disk, installed>>

\* backup with removeUnfamiliarFiles, from the answer of gist.get to the
\* call of gist.update.
BackupGot(outcome) ==
    /\ flow.name = "backup"
    /\ flow.step = "get"
    /\ LET backup == getBackupData(gist.files)
       IN  \/ /\ outcome \in Thrown
              /\ Catch(outcome)
              /\ UNCHANGED <<backupData, diffData>>
           \/ /\ outcome = "invalid"
              /\ Return(<<InvalidResNote>>)
              /\ UNCHANGED <<backupData, diffData>>
           \/ /\ outcome = "ok"
              /\ ~backup.ok
              /\ \E fileName \in ParseFailures(gist.files) :
                    Return(<<Note("error", fileName)>>)
              /\ UNCHANGED <<backupData, diffData>>
           \/ /\ outcome = "ok"
              /\ backup.ok
              /\ \E d \in {getDiffData(localData, backup.data)} :
                    /\ diffData' = d
                    /\ flow' = [flow EXCEPT !.step = "update",
                                            !.upload = WithDeletions(@, d)]
              /\ backupData' = backup.data
              /\ UNCHANGED notes
    /\ UNCHANGED <<batchVars, storeVars, localData, profile, gist, disk,
                   installed, effects>>

\* backup from the answer of gist.update to its end.  A response that lacks
\* the expected fields says nothing about whether the upload was stored.
BackupUpdated(outcome) ==
    /\ flow.name = "backup"
    /\ flow.step = "update"
    /\ LET stored == [files |-> GistUpdate(gist.files, flow.upload),
                      committed_at |-> gist.committed_at + 1]
       IN  \/ /\ outcome \in Thrown
              /\ Catch(outcome)
              /\ UNCHANGED <<atomConfig, gist, effects>>
           \/ /\ outcome = "invalid"
              /\ Return(<<InvalidResNote>>)
              /\ gist' \in {gist, stored}
              /\ UNCHANGED <<atomConfig, effects>>
           \/ /\ outcome = "ok"
              /\ gist' = stored
              /\ atomConfig' = SetBackupTime(atomConfig, stored.committed_at)
              /\ effects' = effects \o <<[e |-> "upload"],
                                         [e |-> "marker", value |-> stored.committed_at]>>
              /\ flow' = Finally([flow EXCEPT !.completed = TRUE,
                                               !.committed_at = stored.committed_at],
                                  "returned")
              /\ notes' = Append(notes, Note("success", "backed up"))
    /\ UNCHANGED <<batchVars, configBefore, diffVars, profile, disk, installed>>

\* installMissingPackages: the names it queues.  The filter reads
\* apmInstallSource off the name p, a string, where it is undefined.
MissingPackages(packages) ==
    LET availablePackages == getPackages
        nameHasSource == FALSE
    IN  {p \in DOMAIN packages.kv :
            \/ p \notin DOMAIN availablePackages.kv
            \/ (~nameHasSource) #
                  ("apmInstallSource" \notin DOMAIN availablePackages.kv[p].kv)}

\* removeObsoletePackages: the names it queues, given the installed packages.
ObsoletePackages(packages, installed_) ==
    {i \in {n \in DOMAIN installed_ :
                \/ profile.syncThemes /\ IsTheme(installed_[n])
                \/ profile.syncPackages /\ ~IsTheme(installed_[n])} :
        i \notin DOMAIN packages.kv}

\* The start of installMissingPackages / removeObsoletePackages on the items
\* given, up to `await Promise.all(result)`.
BeginBatch(kind, items) ==
    /\ op' = kind
    /\ total' = Len(items)
    /\ pc' = IF items = <<>> THEN "done" ELSE "running"
    /\ \E b0 \in {[Batch EXCEPT !.queue = items, !.notifications = {},
                                !.succeeded = EmptyBag, !.failed = EmptyBag,
                                !.attempts = EmptyBag, !.rejected = {},
                                !.workers = Concurrency(Len(items))]} :
       \E b \in {Launch(b0, Concurrency(Len(items)))} : SetBatch(b)

\* Mutant: the flow goes on while items are in flight.
BatchReturnedEarly == pc \in {"done", "running"}

\* `await this.installMissingPackages(...)` / `await
\* this.removeObsoletePackages(...)` resumes: the batch returned at once or
\* every worker has returned.
BatchReturned == pc = "done" \/ (pc = "running" /\ workers = 0)

\* The files restore writes, in the order it writes them.
WriteList(backupData_) ==
    IF backupData_.files = NoFiles THEN <<>>
    ELSE SeqOfSet({backupData_.files.map[n] : n \in DOMAIN backupData_.files.map})

\* restore() up to `await this.gist.get(...)`.
Restore ==
    /\ CanStart
    /\ FreshLocals
    /\ localData' = NoSnapshot
    /\ backupData' = NoSnapshot
    /\ diffData' = NotComputed
    /\ LET prompts == MissingCredential(TRUE)
       IN  /\ flow' = IF prompts = <<>>
                      THEN [Started("restore", FALSE) EXCEPT !.step = "get"]
                      ELSE Finally(Started("restore", FALSE), "returned")
           /\ notes' = prompts
    /\ UNCHANGED <<storeVars, profile, gist, disk, installed>>

\* restore from the answer of gist.get to the first effect: the snapshot of
\* the backup and, with removeUnfamiliarFiles, the local files to delete.
RestoreGot(outcome) ==
    /\ flow.name = "restore"
    /\ flow.step = "get"
    /\ LET backup == getBackupData(gist.files)
           local == getLocalData
       IN  \/ /\ outcome \in Thrown
              /\ Catch(outcome)
              /\ UNCHANGED diffVars
           \/ /\ outcome = "invalid"
              /\ Return(<<InvalidResNote, Note("error", "retrieving")>>)
              /\ UNCHANGED diffVars
           \/ /\ outcome = "ok"
              /\ ~backup.ok
              /\ \E fileName \in ParseFailures(gist.files) :
                    Return(<<Note("error", fileName)>>)
              /\ UNCHANGED diffVars
           \/ /\ outcome = "ok"
              /\ backup.ok
              /\ ~profile.removeUnfamiliarFiles
              /\ flow' = [flow EXCEPT !.step = "settings",
                                      !.committed_at = gist.committed_at]
              /\ backupData' = backup.data
              /\ UNCHANGED <<notes, localData, diffData>>
           \/ /\ outcome = "ok"
              /\ backup.ok
              /\ profile.removeUnfamiliarFiles
              /\ ~local.ok
              /\ Return(<<Note("warnBackupConfig", "config.cson")>>)
              /\ backupData' = backup.data
              /\ UNCHANGED <<localData, diffData>>
           \/ /\ outcome = "ok"
              /\ backup.ok
              /\ profile.removeUnfamiliarFiles
              /\ local.ok
              /\ \E d \in {getDiffData(local.data, backup.data)} :
                    /\ diffData' = d
                    /\ LET deleted == IF ~d.files.null /\ d.files.deleted.has
                                      THEN DOMAIN d.files.deleted.val ELSE {}
                           paths == SeqOfSet({local.data.files.map[n].path :
                                                n \in deleted})
                       IN  flow' = [flow EXCEPT
                                !.step = IF paths = <<>> THEN "settings" ELSE "unlink",
                                !.pending = paths,
                                !.committed_at = gist.committed_at]
              /\ backupData' = backup.data
              /\ localData' = local.data
              /\ UNCHANGED notes
    /\ UNCHANGED <<batchVars, storeVars, profile, gist, disk, installed, effects>>

\* await unlink(file.path) for the next local-only file; an error of the file
\* system ends the flow in its catch block.
RestoreUnlink(ok) ==
    /\ flow.name = "restore"
    /\ flow.step = "unlink"
    /\ LET filePath == Head(flow.pending)
       IN  IF ok
           THEN /\ disk' = [q \in DOMAIN disk \ {filePath} |-> disk[q]]
                /\ effects' = Append(effects, [e |-> "unlink", path |-> filePath])
                /\ flow' = [flow EXCEPT !.pending = Tail(@),
                                        !.step = IF Tail(flow.pending) = <<>>
                                                 THEN "settings" ELSE "unlink"]
                /\ UNCHANGED notes
           ELSE /\ Catch("Error")
                /\ UNCHANGED <<disk, effects>>
    /\ UNCHANGED <<batchVars, storeVars, diffVars, profile, gist, installed>>

\* if (backupData.settings) this.updateSettings(backupData.settings)
RestoreSettings ==
    /\ flow.name = "restore"
    /\ flow.step = "settings"
    /\ IF backupData.settings # Null
       THEN /\ atomConfig' = updateSettings(backupData.settings)
            /\ configBefore' = atomConfig
            /\ effects' = Append(effects, [e |-> "settings"])
       ELSE UNCHANGED <<atomConfig, configBefore, effects>>
    /\ flow' = [flow EXCEPT !.step = "install"]
    /\ UNCHANGED <<batchVars, diffVars, profile, notes, gist, disk, installed>>

\* if (backupData.packages) await this.installMissingPackages(...)
RestoreInstall ==
    /\ flow.name = "restore"
    /\ flow.step = "install"
    /\ IF backupData.packages # Null
       THEN /\ BeginBatch("install", SeqOfSet(MissingPackages(backupData.packages)))
            /\ effects' = Append(effects, [e |-> "install"])
            /\ flow' = [flow EXCEPT !.step = "installing"]
       ELSE /\ flow' = [flow EXCEPT
                          !.pending = WriteList(backupData),
                          !.step = IF WriteList(backupData) = <<>>
                                   THEN "finish" ELSE "write"]
            /\ UNCHANGED <<batchVars, effects>>
    /\ UNCHANGED <<outcomes, storeVars, diffVars, profile, notes, gist, disk,
                   installed>>

\* The install batch has returned: the packages it installed are installed
\* as the backup describes them; with removeObsoletePackages the removal
\* batch starts, else the files are written next.
RestoreInstalled ==
    /\ flow.name = "restore"
    /\ flow.step = "installing"
    /\ BatchReturned
    /\ LET installedNow ==
              [n \in DOMAIN installed \cup BagToSet(succeeded) |->
                  IF n \in BagToSet(succeeded) THEN backupData.packages.kv[n]
                  ELSE installed[n]]
       IN  /\ installed' = installedNow
           /\ IF profile.removeObsoletePackages
              THEN /\ BeginBatch("remove",
                          SeqOfSet(ObsoletePackages(backupData.packages, installedNow)))
                   /\ effects' = effects \o <<[e |-> "installed"], [e |-> "remove"]>>
                   /\ flow' = [flow EXCEPT !.step = "removing"]
              ELSE /\ effects' = Append(effects, [e |-> "installed"])
                   /\ flow' = [flow EXCEPT
                                 !.pending = WriteList(backupData),
                                 !.step = IF WriteList(backupData) = <<>>
                                          THEN "finish" ELSE "write"]
                   /\ UNCHANGED <<op, pc, total, queue, notifications, succeeded,
                                  failed, reports, workers, attempts, rejected>>
    /\ UNCHANGED <<outcomes, storeVars, diffVars, profile, notes, gist, disk>>

\* Mutant: a removal that failed makes the await of the batch throw.
RestoreRemovedOrRaised ==
    /\ flow.name = "restore"
    /\ flow.step = "removing"
    /\ BatchReturned
    /\ installed' = [n \in DOMAIN installed \ BagToSet(succeeded) |-> installed[n]]
    /\ effects' = Append(effects, [e |-> "removed"])
    /\ IF failed # EmptyBag
       THEN Catch("Error")
       ELSE /\ flow' = [flow EXCEPT !.pending = WriteList(backupData),
                                    !.step = IF WriteList(backupData) = <<>>
                                             THEN "finish" ELSE "write"]
            /\ UNCHANGED notes
    /\ UNCHANGED <<batchVars, storeVars, diffVars, profile, gist, disk>>

\* The removal batch has returned: the packages it removed are gone.
RestoreRemoved ==
    /\ flow.name = "restore"
    /\ flow.step = "removing"
    /\ BatchReturned
    /\ installed' = [n \in DOMAIN installed \ BagToSet(succeeded) |-> installed[n]]
    /\ effects' = Append(effects, [e |-> "removed"])
    /\ flow' = [flow EXCEPT !.pending = WriteList(backupData),
                            !.step = IF WriteList(backupData) = <<>>
                                     THEN "finish" ELSE "write"]
    /\ UNCHANGED <<batchVars, storeVars, diffVars, profile, notes, gist, disk>>

\* await writeFile(file.path, file.content) for the next file of the backup.
RestoreWrite(ok) ==
    /\ flow.name = "restore"
    /\ flow.step = "write"
    /\ LET file == Head(flow.pending)
       IN  IF ok
           THEN /\ disk' = Extend(disk, file.path, file.content)
                /\ effects' = Append(effects, [e |-> "write", path |-> file.path])
                /\ flow' = [flow EXCEPT !.pending = Tail(@),
                                        !.step = IF Tail(flow.pending) = <<>>
                                                 THEN "finish" ELSE "write"]
                /\ UNCHANGED notes
           ELSE /\ Catch("Error")
                /\ UNCHANGED <<disk, effects>>
    /\ UNCHANGED <<batchVars, storeVars, diffVars, profile, gist, installed>>

\* The end of restore: the marker is set and the success is notified.
RestoreFinish ==
    /\ flow.name = "restore"
    /\ flow.step = "finish"
    /\ atomConfig' = SetBackupTime(atomConfig, flow.committed_at)
    /\ effects' = Append(effects, [e |-> "marker", value |-> flow.committed_at])
    /\ notes' = Append(notes, Note("success", "synchronized"))
    /\ flow' = Finally([flow EXCEPT !.completed = TRUE], "returned")
    /\ UNCHANGED <<batchVars, configBefore, diffVars, profile, gist, disk, installed>>

NextFlow ==
    \/ \E autoCheck \in BOOLEAN : CheckForUpdate(autoCheck)
    \/ \E outcome \in RemoteOutcomes : CheckGot(outcome)
    \/ ForkGistId
    \/ \E outcome \in RemoteOutcomes : ForkGot(outcome)
    \/ Backup
    \/ \E outcome \in RemoteOutcomes : BackupGot(outcome)
    \/ \E outcome \in RemoteOutcomes : BackupUpdated(outcome)
    \/ Restore
    \/ \E outcome \in RemoteOutcomes : RestoreGot(outcome)
    \/ \E ok \in BOOLEAN : RestoreUnlink(ok)
    \/ RestoreSettings
    \/ RestoreInstall
    \/ \E name \in PackageNames, ok \in BOOLEAN : InstallPackageDone(name, ok)
    \/ RestoreInstalled
    \/ \E name \in PackageNames, ok \in BOOLEAN : RemovePackageDone(name, ok)
    \/ RestoreRemoved
    \/ \E ok \in BOOLEAN : RestoreWrite(ok)
    \/ RestoreFinish

SpecFlow == InitFlow /\ [][NextFlow]_vars

(***************************************************************************)
(* Properties of the batch executor.                                       *)
(***************************************************************************)
Finished == BagCardinality(succeeded) + BagCardinality(failed)

InFlight == BagCardinality(attempts) - Finished

\* C1: in installMissingPackages and removeObsoletePackages the number of
\* items in flight at the same time (started and not finished, that is
\* holding a progress indicator) never exceeds min(n, 8).
C1_InFlightAtMostCap ==
    pc # "start" =>
        /\ InFlight <= Min(total, 8)
        /\ Cardinality(notifications) <= Min(total, 8)

\* More items than the cap, the cap reached, and a worker already went on
\* to a later item.
C1_Witness ==
    /\ total > 8
    /\ Cardinality(notifications) = 8
    /\ Finished >= 1

\* C2: every item is popped and handed to the worker exactly once, and when
\* the batch ends succeeded and failed are disjoint and together hold each
\* of the n names exactly once.
C2_EachItemExactlyOnce ==
    /\ \A x \in BagToSet(attempts) : CopiesIn(x, attempts) = 1
    /\ pc # "start" =>
            BagToSet(attempts) = (1..total) \ {queue[i] : i \in 1..Len(queue)}
    /\ (pc = "done" /\ total >= 1) =>
            /\ succeeded (+) failed = SetToBag(1..total)
            /\ BagToSet(succeeded) \cap BagToSet(failed) = {}
            /\ Finished = total

\* A batch larger than the cap has ended with items on both lists.
C2_Witness ==
    /\ pc = "done"
    /\ total > 8
    /\ succeeded # EmptyBag
    /\ failed # EmptyBag

\* C3: for n >= 1 the aggregate report is emitted exactly once per batch,
\* only with the pending queue empty and no item in flight (after the last
\* item finished), and never a second time.
C3_ReportExactlyOnceAtEnd ==
    /\ Len(reports) <= 1
    /\ Len(reports) = 1 =>
            /\ queue = <<>>
            /\ notifications = {}
            /\ Finished = total
            /\ reports[1] = Report(Batch)
    /\ (pc = "done" /\ total >= 1) => Len(reports) = 1

\* The report of a batch of several workers is out, with failures listed.
C3_Witness ==
    /\ Len(reports) = 1
    /\ total >= 3
    /\ reports[1].type = "warning"
    /\ Len(reports[1].names) >= 2

\* C4: a failing item never blocks or cancels the others: if every worker
\* call eventually settles, every item is eventually attempted, the failed
\* names are exactly the rejected ones, and the batch terminates.
C4_FailureIsLocal ==
    /\ [](BagToSet(failed) = rejected)
    /\ <>[](/\ pc = "done"
            /\ queue = <<>>
            /\ BagToSet(attempts) = 1..total
            /\ BagToSet(failed) = rejected
            /\ BagToSet(succeeded) = (1..total) \ rejected)

\* A batch larger than the cap has ended in which the first item failed and
\* the last one, popped later by a worker, succeeded.
C4_Witness ==
    /\ pc = "done"
    /\ total > 8
    /\ 1 \in rejected
    /\ total \in BagToSet(succeeded)

\* C20: the batch executor is work-conserving: while items are pending, the
\* number of items in flight equals the concurrency cap min(n, 8), and the
\* number in flight only drops once the queue is empty.
C20_WorkConserving ==
    [][/\ (pc' = "running" /\ queue' # <<>>) =>
            (BagCardinality(attempts') - BagCardinality(succeeded')
                - BagCardinality(failed') = Concurrency(total')
             /\ Cardinality(notifications') = Concurrency(total'))
       /\ (pc = "running" /\ Cardinality(notifications') < Cardinality(notifications))
            => queue = <<>>]_vars

\* A worker has finished an item while others were pending and took the next.
C20_Witness ==
    /\ pc = "running"
    /\ total > ConcurrencyCap
    /\ queue # <<>>
    /\ Finished > 0
    /\ InFlight = ConcurrencyCap

(***************************************************************************)
(* Properties of the diff engine.                                          *)
(***************************************************************************)
AllAbsent == [settings |-> NullDiff, packages |-> NullDiff, files |-> NullDiff]

\* The key paths of a bucket of the settings sub-diff, none when absent.
SettingsKeyPaths(d, bucket) ==
    IF d.settings.null \/ ~d.settings[bucket].has THEN {}
    ELSE {entry.keyPath : entry \in d.settings[bucket].val}

\* The names of a bucket of the packages or files sub-diff, none when absent.
BucketNames(subDiff, bucket) ==
    IF subDiff.null \/ ~subDiff[bucket].has THEN {}
    ELSE DOMAIN subDiff[bucket].val

\* C5: for every snapshot A, getDiffData(A, A) returns settings, packages
\* and files all null, never an empty object or an object of empty buckets.
C5_DiffOfEqualSnapshotsIsAbsent ==
    /\ getDiffData(localData, localData) = AllAbsent
    /\ getDiffData(backupData, backupData) = AllAbsent
    /\ (diffData # NotComputed /\ localData = backupData) => diffData = AllAbsent

\* The diff of two equal snapshots that hold settings and files was computed.
C5_Witness ==
    /\ diffData # NotComputed
    /\ localData = backupData
    /\ localData.settings # Null
    /\ ".src" \in DOMAIN localData.settings.kv
    /\ localData.files # NoFiles

\* C6: for all snapshots A, B and any live configuration, the key paths of
\* getDiffData(A, B).settings.added equal those of
\* getDiffData(B, A).settings.deleted, and likewise the names of
\* packages.added / packages.deleted and of files.added / files.deleted.
C6_AddedMirrorsDeleted ==
    diffData # NotComputed =>
        LET swapped == getDiffData(backupData, localData)
        IN  /\ SettingsKeyPaths(diffData, "added")
                    = SettingsKeyPaths(swapped, "deleted")
            /\ BucketNames(diffData.packages, "added")
                    = BucketNames(swapped.packages, "deleted")
            /\ BucketNames(diffData.files, "added")
                    = BucketNames(swapped.files, "deleted")

\* Two descriptors that differ only in that exactly one has apmInstallSource.
OnlyInstallSourceDiffers(a, b) ==
    /\ ("apmInstallSource" \in DOMAIN a.kv) # ("apmInstallSource" \in DOMAIN b.kv)
    /\ Without(a.kv, "apmInstallSource") = Without(b.kv, "apmInstallSource")

\* C7: a package on both sides whose descriptors differ only in the presence
\* of an install source is classified under 'updated' with both full
\* descriptors and appears in neither 'added' nor 'deleted'; 'added' holds
\* only names of the backup alone, 'deleted' only names of the local side alone.
C7_InstallSourceMismatchIsUpdated ==
    (/\ diffData # NotComputed
     /\ localData.packages # Null
     /\ backupData.packages # Null) =>
        LET loc == localData.packages.kv
            bak == backupData.packages.kv
        IN  /\ \A name \in DOMAIN loc \cap DOMAIN bak :
                    OnlyInstallSourceDiffers(loc[name], bak[name]) =>
                        /\ name \in BucketNames(diffData.packages, "updated")
                        /\ diffData.packages.updated.val[name]
                                = [backup |-> bak[name], local |-> loc[name]]
                        /\ name \notin BucketNames(diffData.packages, "added")
                        /\ name \notin BucketNames(diffData.packages, "deleted")
            /\ BucketNames(diffData.packages, "added") \subseteq DOMAIN bak \ DOMAIN loc
            /\ BucketNames(diffData.packages, "deleted") \subseteq DOMAIN loc \ DOMAIN bak

\* C8: the files sub-diff puts each name of both file maps into exactly one
\* outcome: 'updated' when on both sides with different content, 'added'
\* when only in the backup, 'deleted' when only local, nothing when equal;
\* a bucket exists only with an entry, and the sub-diff is null without one.
C8_FilesClassifiedOnce ==
    diffData # NotComputed =>
        LET loc == FileNames(localData.files)
            bak == FileNames(backupData.files)
            upd == {n \in loc \cap bak :
                      localData.files.map[n].content # backupData.files.map[n].content}
            f == diffData.files
        IN  /\ BucketNames(f, "updated") = upd
            /\ BucketNames(f, "added") = bak \ loc
            /\ BucketNames(f, "deleted") = loc \ bak
            /\ \A n \in upd :
                    f.updated.val[n] =
                        [path |-> backupData.files.map[n].path,
                         content |-> createTwoFilesPatch(localData.files.map[n].content,
                                                         backupData.files.map[n].content)]
            /\ \A n \in bak \ loc : f.added.val[n] = backupData.files.map[n]
            /\ \A n \in loc \ bak : f.deleted.val[n] = localData.files.map[n]
            /\ f.null <=> (upd = {} /\ bak \ loc = {} /\ loc \ bak = {})
            /\ ~f.null =>
                    \A b \in {"added", "updated", "deleted"} :
                        f[b].has <=> BucketNames(f, b) # {}

\* A diff with an updated, an added and a deleted file at once.
C8_Witness ==
    /\ diffData # NotComputed
    /\ BucketNames(diffData.files, "updated") # {}
    /\ BucketNames(diffData.files, "added") # {}
    /\ BucketNames(diffData.files, "deleted") # {}

(***************************************************************************)
(* Properties of the settings filter.                                      *)
(***************************************************************************)
\* The value of a key path in the global settings of a configuration.
ValueIn(config, keyPath) == getValueAtKeyPath(config.settings, keyPath)

\* C9: for every blacklisted key path (the reserved keys and the user's
\* list), the value of the key in the live configuration after restore's
\* updateSettings equals its value before, whatever the backup holds at that
\* key path and whether the key was set or unset beforehand.
C9_BlacklistedKeysSurviveRestore ==
    configBefore # NotRestored =>
        LET keys == BlacklistedKeysOf(configBefore.settings)
        IN  \A i \in 1..Len(keys) :
                ValueIn(atomConfig, keys[i]) = ValueIn(configBefore, keys[i])

\* C10: the settings tree getLocalData builds holds no value at a blacklisted
\* key path, in the global scope '*' or under any scope selector.
C10_SnapshotHasNoBlacklistedKey ==
    [][GetFilteredSettings =>
        LET keys == AllBlacklistedKeys
        IN  \A scopeSelector \in DOMAIN localData'.settings.kv :
                \A i \in 1..Len(keys) :
                    getValueAtKeyPath(localData'.settings.kv[scopeSelector],
                                      keys[i]) = Undefined]_vars

(***************************************************************************)
(* Properties of the flows.                                                *)
(***************************************************************************)
\* The settings or packages blobs of the remote backup that are no JSON.
MalformedBlobs ==
    {fileName \in DOMAIN gist.files \cap {"settings.json", "packages.json"} :
        ~JSONparse(gist.files[fileName]).ok}

\* The flow ends here with one error notification that names a blob of
\* `blobs`, and nothing else changes: no setting, no package, no file, no
\* marker.
AbortsOnParseError(blobs) ==
    /\ flow'.step = "end"
    /\ flow'.status = "returned"
    /\ \E fileName \in blobs : notes' = <<Note("error", fileName)>>
    /\ atomConfig' = atomConfig
    /\ installed' = installed
    /\ disk' = disk
    /\ attempts' = EmptyBag
    /\ effects' = <<>>

\* C11 as stated: if the settings or packages blob of the backup is malformed
\* JSON, restore ends on the answer of gist.get with exactly one error
\* notification naming the blob and without any effect.
C11_MalformedBlobAbortsRestore ==
    [][(RestoreGot("ok") /\ MalformedBlobs # {})
        => AbortsOnParseError(MalformedBlobs)]_vars

\* C11, amended: the same for a malformed settings or packages blob whose
\* slot is enabled (syncSettings for settings.json, syncPackages or
\* syncThemes for packages.json); the blob of a disabled slot is not parsed.
C11_MalformedParsedBlobAbortsRestore ==
    [][(RestoreGot("ok") /\ ParseFailures(gist.files) # {})
        => AbortsOnParseError(ParseFailures(gist.files))]_vars

\* A restore has ended on a parse error of a backup that holds other blobs.
C11_Witness ==
    /\ flow.name = "restore"
    /\ flow.step = "end"
    /\ ParseFailures(gist.files) # {}
    /\ "keymap.cson" \in DOMAIN gist.files
    /\ Len(notes) = 1
    /\ notes[1].type = "error"
    /\ notes[1].about \in ParseFailures(gist.files)
    /\ effects = <<>>

\* A flow of the three has ended before finishing: it returned early or
\* raised.
Aborted ==
    /\ flow.name \in {"checkForUpdate", "backup", "restore"}
    /\ flow.step = "end"
    /\ ~flow.completed

\* C12: on every path by which checkForUpdate, backup or restore aborts
\* before finishing, exactly one notification is emitted, never zero and
\* never two.
C12_ExactlyOneNotificationOnAbort ==
    Aborted => Len(notes) = 1

\* The remote call a flow awaits throws an error of the message given.
RemoteCallThrows(message) ==
    \/ CheckGot(message)
    \/ BackupGot(message)
    \/ BackupUpdated(message)
    \/ RestoreGot(message)
    \/ ForkGot(message)

\* C13: when a remote call of checkForUpdate, backup, restore or forkGistId
\* throws, 'Not Found' yields the invalid-remote-id prompt with a retry
\* callback and a normal return, 'Bad credentials' yields the
\* invalid-credential prompt with a retry callback and a normal return, and
\* every other cause yields one generic error notification and the error is
\* raised to the caller; no later step of the flow runs: the step changes
\* nothing else, and the only step after the end of a flow is the call of
\* another flow.
C13_TransportErrors ==
    [][/\ \A message \in Thrown :
            RemoteCallThrows(message) =>
                /\ message = "Not Found" =>
                      /\ notes' = Append(notes, Note("invalidGistId", "retry"))
                      /\ flow'.status = "returned"
                /\ message = "Bad credentials" =>
                      /\ notes' = Append(notes,
                                         Note("invalidPersonalAccessToken", "retry"))
                      /\ flow'.status = "returned"
                /\ message = "Error" =>
                      /\ notes' = Append(notes, Note("error", "generic"))
                      /\ flow'.status = "raised"
                /\ flow'.step = "end"
                /\ ~flow'.completed
                /\ UNCHANGED <<atomConfig, gist, disk, installed, profile,
                               effects, batchVars>>
       /\ flow.step = "end" =>
            /\ flow'.count = flow.count + 1
            /\ flow'.name # "none"]_vars

\* backup has raised the error its call of gist.update threw, after the
\* answer of gist.get was taken.
C13_Witness ==
    /\ flow.name = "backup"
    /\ flow.step = "end"
    /\ flow.status = "raised"
    /\ backupData # NoSnapshot
    /\ notes = <<Note("error", "generic")>>
    /\ effects = <<>>

\* C14: if backup completes successfully and neither the local state nor
\* the remote backup changes afterwards, a following checkForUpdate whose
\* call of gist.get is answered computes all three sub-diffs absent and
\* reports 'synchronized' (a success notification for a non-auto check, no
\* notification for an auto check).
C14_CheckAfterBackupIsSynchronized ==
    [][(CheckGot("ok") /\ flow.previous = "backup") =>
            /\ flow'.completed
            /\ ~HasDifference(diffData')
            /\ notes' = IF flow.autoCheck THEN <<>>
                        ELSE <<Note("success", "synchronized")>>]_vars

\* The value of the last-backup-time marker in the live configuration.
Marker == getValueAtKeyPath(atomConfig.settings, BackupTimeKey)

\* backup or restore finishes successfully in this step.
FinishesSuccessfully == BackupUpdated("ok") \/ RestoreFinish

\* C15: the marker is written exactly when backup or restore finishes
\* successfully, with the committed_at of the newest history entry of the
\* remote response, as the last state change of the flow; no other step
\* changes it, so on every path where backup or restore aborts or raises it
\* keeps its previous value.
C15_MarkerFollowsSuccess ==
    [][/\ FinishesSuccessfully =>
            /\ Marker' = Leaf(ToString(gist'.committed_at))
            /\ flow'.step = "end"
            /\ flow'.completed
       /\ ~FinishesSuccessfully => Marker' = Marker]_vars

\* The phase of restore an effect belongs to.
Phase(effect) ==
    CASE effect.e = "unlink" -> 1
      [] effect.e = "settings" -> 2
      [] effect.e \in {"install", "installed"} -> 3
      [] effect.e \in {"remove", "removed"} -> 4
      [] effect.e = "write" -> 5
      [] effect.e = "marker" -> 6

\* The effects of the kind given among the effects given.
EffectsOf(effects_, kind) ==
    {i \in 1..Len(effects_) : effects_[i].e = kind}

\* C16: a restore performs its effects in a fixed order with no overlap:
\* deletions of local-only files, settings, the install batch, the removal
\* batch, the file writes, the marker.  No effect of a later phase comes
\* before one of an earlier phase; when a batch is left behind (its end is
\* recorded, the next batch starts, a file is written or the marker is set)
\* no item of it is in flight or queued; and the marker is set when every
\* file of the backup has been written.
C16_RestorePhaseOrder ==
    [][flow'.name = "restore" =>
        /\ \A i, j \in 1..Len(effects') :
              i < j => Phase(effects'[i]) <= Phase(effects'[j])
        /\ (Len(effects') > Len(effects)
              /\ effects'[Len(effects')].e
                    \in {"installed", "remove", "removed", "write", "marker"})
            => /\ InFlight = 0
               /\ queue = <<>>
        /\ EffectsOf(effects', "marker") # {} =>
              /\ flow.pending = <<>>
              /\ {effects'[i].path : i \in EffectsOf(effects', "write")}
                    = {file.path : file \in
                         {WriteList(backupData)[k] : k \in 1..Len(WriteList(backupData))}}]_vars

\* A restore went through all six phases: it deleted a local-only file,
\* applied the settings, installed and removed packages, wrote a file and
\* set the marker.
C16_Witness ==
    /\ flow.name = "restore"
    /\ flow.completed
    /\ \A kind \in {"unlink", "settings", "install", "remove", "write", "marker"} :
          EffectsOf(effects, kind) # {}
    /\ op = "remove"
    /\ BagCardinality(attempts) > 0
    /\ Cardinality(DOMAIN installed) > 1

\* The descriptor given has an install source.
HasInstallSource(descriptor) == "apmInstallSource" \in DOMAIN descriptor.kv

\* The names the install batch that starts in this step holds: those it has
\* started and those it has queued.
BatchItems ==
    BagToSet(attempts') \cup {queue'[i] : i \in 1..Len(queue')}

\* C17: during restore, installMissingPackages queues a package of the backup
\* exactly when it is not installed locally, or when it is installed locally
\* and exactly one of the backup's descriptor and the local descriptor has an
\* install source.
C17_InstallQueueCondition ==
    [][(RestoreInstall /\ backupData.packages # Null) =>
        BatchItems =
            {p \in DOMAIN backupData.packages.kv :
                \/ p \notin DOMAIN installed
                \/ HasInstallSource(backupData.packages.kv[p])
                      # HasInstallSource(installed[p])}]_vars

\* The paths of the files of the backup.
BackupPaths ==
    {WriteList(backupData)[k].path : k \in 1..Len(WriteList(backupData))}

\* C18: in restore, failures of individual package installs or removals do
\* not abort the restore.  The failure of an item leaves the flow as it is;
\* once the install batch has started, the only way restore ends without
\* finishing is a file write that throws; and a restore that finishes has
\* written every file of the backup, set the marker to the revision
\* timestamp and notified its success, whichever items failed (two blobs of
\* the backup may name one path: the path then holds the content of one).
C18_ItemFailuresDoNotAbortRestore ==
    [][(flow'.name = "restore" /\ EffectsOf(effects', "install") # {}) =>
        /\ BagCardinality(failed') > BagCardinality(failed)
              => (flow' = flow /\ notes' = notes)
        /\ (flow'.step = "end" /\ ~flow'.completed) => RestoreWrite(FALSE)
        /\ flow'.completed =>
              /\ {effects'[i].path : i \in EffectsOf(effects', "write")} = BackupPaths
              /\ \A path \in BackupPaths :
                    /\ path \in DOMAIN disk'
                    /\ \E k \in 1..Len(WriteList(backupData)) :
                          /\ WriteList(backupData)[k].path = path
                          /\ WriteList(backupData)[k].content = disk'[path]
              /\ Marker' = Leaf(ToString(flow.committed_at))
              /\ notes' = <<Note("success", "synchronized")>>]_vars

\* A restore has finished although an install and a removal failed.
C18_Witness ==
    /\ flow.name = "restore"
    /\ flow.completed
    /\ op = "remove"
    /\ failed # EmptyBag
    /\ Len(reports) = 2
    /\ \A i \in 1..2 : reports[i].type = "warning"
    /\ EffectsOf(effects, "write") # {}
    /\ notes = <<Note("success", "synchronized")>>

\* C19: the files backup hands to gist.update hold a packages.json blob if
\* and only if the syncPackages option is enabled, whatever the value of
\* syncThemes.
C19_PackagesBlobIffSyncPackages ==
    (flow.name = "backup" /\ flow.step = "update") =>
        ("packages.json" \in DOMAIN flow.upload <=> profile.syncPackages)

\* C21: the busy signal a flow raises when it is called is dismissed exactly
\* once when the flow is left - after its last statement, after an early
\* return (a missing credential or identifier, a response that lacks the
\* expected fields, no snapshot) or after an error - and not before.
C21_BusySignalDismissedOnce ==
    /\ flow.raised = IF flow.name = "none" THEN 0 ELSE 1
    /\ flow.dismissed = IF flow.step = "end" THEN 1 ELSE 0

\* A restore that had begun to change the local state was left by an error
\* raised again, its signal dismissed.
C21_Witness ==
    /\ flow.name = "restore"
    /\ flow.step = "end"
    /\ flow.status = "raised"
    /\ effects # <<>>
    /\ flow.raised = 1
    /\ flow.dismissed = 1

\* No item of a batch of the flow failed.
AllItemsSucceeded == \A i \in 1..Len(reports) : reports[i].type = "success"

\* C22: after a restore in which every operation succeeded, with
\* removeObsoletePackages and removeUnfamiliarFiles enabled, of a backup that
\* holds settings, packages and files, the diff between the local snapshot
\* and the snapshot of the backup is absent for the settings, for the
\* packages and for the files.
C22_RestoreIsBackupWins ==
    (/\ flow.name = "restore"
     /\ flow.step = "end"
     /\ flow.completed
     /\ AllItemsSucceeded
     /\ profile.removeObsoletePackages
     /\ profile.removeUnfamiliarFiles
     /\ backupData.settings # Null
     /\ backupData.packages # Null
     /\ backupData.files # NoFiles) =>
        LET local == getLocalData
        IN  /\ local.ok
            /\ getDiffData(local.data, backupData) = AllAbsent

=============================================================================
